---- MODULE Spec2Model ----
(***************************************************************************)
(* EKS cluster provisioner API: the HTTP handlers of api/main.py, the      *)
(* Kubernetes client of api/k8s_client.py and the request model of         *)
(* api/models.py, over an orchestration platform that stores Jobs and      *)
(* PersistentVolumeClaims.  Strings are sequences of one-character         *)
(* strings, so that concatenation, regular-expression matching and name    *)
(* comparison are computed and not assumed.                                *)
(***************************************************************************)
EXTENDS Integers, Sequences, FiniteSets, TLC

\* ------------------------------------------------------------------ bounds
\* Runs of equal characters in the names given to the validator.
MaxRuns == 3
\* Seconds of the platform's clock at which the listed jobs were created.
MaxClock == 1
\* The greatest value of a job's succeeded, failed and active counters.
MaxCount == 2

\* ------------------------------------------------------- program constants
MinLength == 1
MaxLength == 100
MaxMiddle == 98
TestTtl == 86400

\* --------------------------------------------------------------- constants
None == "None"
\* an unset (None) integer field of a platform object
Unset == -1
\* one API process handles one request at a time; two processes race
Process == "c1"
Replicas == {"c1", "c2"}

LowerChars ==
  {"a","b","c","d","e","f","g","h","i","j","k","l","m",
   "n","o","p","q","r","s","t","u","v","w","x","y","z"}
DigitChars == {"0","1","2","3","4","5","6","7","8","9"}

\* [a-z0-9]
AlNum(c) == c \in LowerChars \cup DigitChars
\* [a-z0-9-]
AlNumHyphen(c) == AlNum(c) \/ c = "-"

\* ------------------------------------------------------------ string names
TestOp == <<"t","e","s","t">>
ProvisionOp == <<"p","r","o","v","i","s","i","o","n">>
DestroyOp == <<"d","e","s","t","r","o","y">>
StatePrefix == <<"t","f","s","t","a","t","e","-">>
LogsPrefix == <<"t","f","l","o","g","s","-">>
AppLabel == <<"e","k","s","-","p","r","o","v","i","s","i","o","n","e","r">>

\* f"tfstate-{cluster_name}"
StatePvcName(cluster_name) == StatePrefix \o cluster_name
\* f"tflogs-{cluster_name}"
LogsPvcName(cluster_name) == LogsPrefix \o cluster_name
\* f"{operation}-{cluster_name}"
JobName(operation, cluster_name) == operation \o <<"-">> \o cluster_name

\* --------------------------------------------------------- ClusterRequest
\* The positions at which "$" matches: the end of the string, and just
\* before a line break that ends the string.
DollarPositions(v) ==
  {Len(v)} \cup (IF Len(v) >= 1 /\ v[Len(v)] = "\n" THEN {Len(v) - 1} ELSE {})

\* ^[a-z0-9]([a-z0-9-]{0,98}[a-z0-9])? matching the first n characters of v
PatternMatchesPrefix(v, n) ==
  /\ n >= 1
  /\ AlNum(v[1])
  /\ \/ n = 1
     \/ /\ n - 2 <= MaxMiddle
        /\ \A k \in 2..(n - 1) : AlNumHyphen(v[k])
        /\ AlNum(v[n])

\* re.match(r"^[a-z0-9]([a-z0-9-]{0,98}[a-z0-9])?$", v)
ReMatch(v) == \E n \in DollarPositions(v) : PatternMatchesPrefix(v, n)

\* Field(min_length=1, max_length=100)
LengthOk(v) == MinLength <= Len(v) /\ Len(v) <= MaxLength

\* ClusterRequest(cluster_name=v): the field constraints, then the validator
ValidateClusterName(v) == IF LengthOk(v) /\ ReMatch(v) THEN "accept" ELSE "reject"

\* -------------------------------------------------- inputs to the validator
ValidatorAlphabet == {"a", "0", "-", "A", "_", " ", "\n"}
RunLengths == {1, 99}
Runs == [ch : ValidatorAlphabet, n : RunLengths]

RECURSIVE Repeat(_, _)
Repeat(c, n) == IF n = 0 THEN <<>> ELSE <<c>> \o Repeat(c, n - 1)

RECURSIVE Expand(_)
Expand(rs) == IF rs = <<>> THEN <<>>
              ELSE Repeat(rs[1].ch, rs[1].n) \o Expand(Tail(rs))

RunSeqs(max) == UNION {[1..k -> Runs] : k \in 0..max}
ValidatorInputs(max) == {Expand(rs) : rs \in RunSeqs(max)}

\* ------------------------------------------------------------------- state
VARIABLES
  jobs,     \* the Job objects of the namespace
  pvcs,     \* the names of the PersistentVolumeClaims of the namespace
  req,      \* per API process: the request being handled and its response
  clock,    \* the platform's time in seconds; it stands still in a behaviour,
            \* whose requests fall within the second in which it starts
  vin,      \* the cluster_name given to the validator
  vout,     \* the validator's verdict on vin
  sjob,     \* the platform's answer given to get_job_status
  sres      \* what get_job_status made of sjob

vars == <<jobs, pvcs, req, clock, vin, vout, sjob, sres>>

ClusterNames == {<<"a">>, <<"A">>, <<"a", "\n">>}
Endpoints == {"test", "provision", "status", "logs", "destroy", "cleanup", "list"}

\* nothing given to get_job_status, nothing returned
NoAnswer == [status |-> "none"]

IdleRequest ==
  [op |-> "none", name |-> <<>>, pc |-> "idle", i |-> 0, out |-> <<>>,
   code |-> 0, job_name |-> <<>>, status |-> "", phase |-> "",
   found |-> <<>>, listed |-> <<>>,
   deleted |-> [jobs |-> <<>>, pvcs |-> <<>>],
   latest |-> <<>>, clusters |-> <<>>, total |-> 0]

\* --------------------------------------------------------------- platform
\* Object names the platform accepts on create (RFC 1123).
K8sNameOk(n) ==
  /\ Len(n) >= 1
  /\ AlNum(n[1])
  /\ AlNum(n[Len(n)])
  /\ \A k \in 1..Len(n) : AlNumHyphen(n[k]) \/ n[k] = "."

JobExists(n) == \E j \in jobs : j.name = n
JobNamed(n) == CHOOSE j \in jobs : j.name = n

\* Every platform call may fail with an API error other than 404 and 409.
CreateOutcomes(n, exists) ==
  {"error", IF ~K8sNameOk(n) THEN "invalid" ELSE IF exists THEN "conflict" ELSE "ok"}
ReadOutcomes(exists) == {"error", IF exists THEN "ok" ELSE "notfound"}
DeleteOutcomes(exists) == {"error", IF exists THEN "ok" ELSE "notfound"}
ListOutcomes == {"error", "ok"}

\* The platform sets metadata.creation_timestamp when it stores the object.
Stored(job, now) == [job EXCEPT !.created = now]

\* a selector that takes the jobs whose name ends with the cluster name
SelectorMatchesNameSuffix(cluster_name, j) ==
  /\ Len(j.name) >= Len(cluster_name)
  /\ SubSeq(j.name, Len(j.name) - Len(cluster_name) + 1, Len(j.name)) = cluster_name

\* label_selector=f"cluster={cluster_name}"
SelectorMatches(cluster_name, j) == j.cluster = cluster_name

\* The orders in which a list call may return the objects of S.
Orders(S) ==
  {s \in [1..Cardinality(S) -> S] : \A a, b \in 1..Cardinality(S) : a # b => s[a] # s[b]}

\* --------------------------------------------------------------- k8s_client
\* an operation name that forgets the dry run
OperationAlwaysProvision(dry_run) == ProvisionOp

\* operation = "test" if dry_run else "provision"
Operation(dry_run) == IF dry_run THEN TestOp ELSE ProvisionOp

\* The fields of a ClusterRequest besides cluster_name: the requests of Spec
\* all carry this body.
RequestBody ==
  [kubernetes_version |-> "1.32", instance_type |-> "m5.xlarge", ip_family |-> "ipv4"]

\* env=[...] of create_provision_job; a variable taken from the AWS secret
\* has no value of its own
ProvisionEnv(cluster_name, kubernetes_version, instance_type, ip_family, dry_run) ==
  <<[name |-> "CLUSTER_NAME", value |-> cluster_name],
    [name |-> "KUBERNETES_VERSION", value |-> kubernetes_version],
    [name |-> "INSTANCE_TYPE", value |-> instance_type],
    [name |-> "IP_FAMILY", value |-> ip_family],
    [name |-> "DRY_RUN", value |-> IF dry_run THEN "true" ELSE "false"],
    [name |-> "AWS_ACCESS_KEY_ID", value |-> None],
    [name |-> "AWS_SECRET_ACCESS_KEY", value |-> None],
    [name |-> "AWS_DEFAULT_REGION", value |-> None]>>

\* env=[...] of create_destroy_job
DestroyEnv(cluster_name) ==
  <<[name |-> "CLUSTER_NAME", value |-> cluster_name],
    [name |-> "AWS_ACCESS_KEY_ID", value |-> None],
    [name |-> "AWS_SECRET_ACCESS_KEY", value |-> None],
    [name |-> "AWS_DEFAULT_REGION", value |-> None]>>

\* client.V1Job(...) of create_provision_job
ProvisionJob(cluster_name, dry_run) ==
  [name |-> JobName(Operation(dry_run), cluster_name),
   app |-> AppLabel, cluster |-> cluster_name, operation |-> Operation(dry_run),
   state_claim |-> StatePvcName(cluster_name),
   logs_claim |-> LogsPvcName(cluster_name),
   ttl |-> IF dry_run THEN TestTtl ELSE Unset,
   env |-> ProvisionEnv(cluster_name, RequestBody.kubernetes_version,
                        RequestBody.instance_type, RequestBody.ip_family, dry_run),
   created |-> Unset,
   succeeded |-> Unset, failed |-> Unset, active |-> Unset]

\* client.V1Job(...) of create_destroy_job
DestroyJob(cluster_name) ==
  [name |-> JobName(DestroyOp, cluster_name),
   app |-> AppLabel, cluster |-> cluster_name, operation |-> DestroyOp,
   state_claim |-> StatePvcName(cluster_name),
   logs_claim |-> LogsPvcName(cluster_name),
   ttl |-> Unset,
   env |-> DestroyEnv(cluster_name),
   created |-> Unset,
   succeeded |-> Unset, failed |-> Unset, active |-> Unset]

\* a create_pvcs that re-raises the 409 of an existing PVC
PvcCreateRaisesOnConflict(o) == o # "ok"

\* create_pvcs: whether the ApiException of a PVC create is re-raised
PvcCreateRaises(o) == o \notin {"ok", "conflict"}

\* a job create that treats the 409 of an existing job as the PVC creates do
JobCreateSwallowsConflict(o) ==
  IF o \in {"ok", "conflict"} THEN "none" ELSE "ApiException"

\* create_provision_job / create_destroy_job: the exception a job create ends in
JobCreateException(o) ==
  IF o = "ok" THEN "none" ELSE IF o = "conflict" THEN "ValueError" ELSE "ApiException"

\* a create_destroy_job that does not look at the probe's result
PvcProbeIgnored(o) == "none"

\* create_destroy_job: the exception the state PVC probe ends in
PvcProbeException(o) == IF o = "ok" THEN "none" ELSE "ValueError"

\* a delete_cluster_resources that swallows 404 alone
DeleteResourcesRaisesUnless404(o) == o = "error"

\* delete_cluster_resources: whether the ApiException of a list or delete
\* call leaves the function (both except clauses log it and go on)
DeleteResourcesRaises(o) == FALSE

\* a condition that asks whether the value is set
IsNotNone(x) == x # Unset

\* a Python value used as a condition
Truthy(x) == x # Unset /\ x # 0
\* x or 0
OrZero(x) == IF Truthy(x) THEN x ELSE 0

\* get_job_status, for a job the platform returned
GetJobStatus(j) ==
  [status |-> IF Truthy(j.succeeded) THEN "completed"
              ELSE IF Truthy(j.failed) THEN "failed" ELSE "running",
   phase |-> IF Truthy(j.succeeded) THEN "Succeeded"
             ELSE IF Truthy(j.failed) THEN "Failed"
             ELSE IF Truthy(j.active) THEN "Running" ELSE "Unknown",
   message |-> IF ~Truthy(j.succeeded) /\ Truthy(j.failed)
               THEN "Job failed with " \o ToString(j.failed) \o " failures"
               ELSE None,
   succeeded |-> OrZero(j.succeeded),
   failed |-> OrZero(j.failed),
   active |-> OrZero(j.active)]

\* get_job_status, for a job the platform reports missing
NotFoundStatus == [status |-> "not_found", phase |-> "NotFound", message |-> "Job not found"]

\* get_job_status left by an ApiException other than 404
Raised == [status |-> "raised"]

\* get_job_status, from the platform's answer to read_namespaced_job
GetJobStatusOf(answer) ==
  IF answer.outcome = "ok" THEN GetJobStatus(answer)
  ELSE IF answer.outcome = "notfound" THEN NotFoundStatus
  ELSE Raised

\* -------------------------------------------------------------------- main
\* a handler that answers 202 whatever create_provision_job raised
ProvisionAlwaysAccepted(exc) == 202

\* the HTTP status of POST /clusters/test and POST /clusters/provision
ProvisionHttpCode(exc) ==
  IF exc = "none" THEN 202 ELSE IF exc = "ValueError" THEN 400 ELSE 500

\* the HTTP status of DELETE /clusters/{cluster_name}
DestroyHttpCode(exc) ==
  IF exc = "none" THEN 200 ELSE IF exc = "ValueError" THEN 404 ELSE 500

\* the HTTP status of DELETE /clusters/{cluster_name}/cleanup
CleanupHttpCode(raised) == IF raised THEN 500 ELSE 200

\* a candidate list that looks for the provision job first
StatusCandidatesProvisionFirst(cluster_name) ==
  <<JobName(ProvisionOp, cluster_name), JobName(TestOp, cluster_name),
    JobName(DestroyOp, cluster_name)>>

\* jobs = ["test-" + cluster_name, "provision-" + cluster_name, "destroy-" + cluster_name]
StatusCandidates(cluster_name) ==
  <<JobName(TestOp, cluster_name), JobName(ProvisionOp, cluster_name),
    JobName(DestroyOp, cluster_name)>>

\* ClusterStatus(...): the str fields accept no None
ClusterStatusValid(info) ==
  /\ info.status # None
  /\ info.phase # None
  /\ info.message # None

\* sub in s, for two str
Contains(s, sub) ==
  \E k \in 0..(Len(s) - Len(sub)) : SubSeq(s, k + 1, k + Len(sub)) = sub

\* list_clusters: operation = "provision"; if "destroy" in
\* latest_job.metadata.name: operation = "destroy"
LastOperation(job) ==
  IF Contains(job.name, DestroyOp) THEN DestroyOp ELSE ProvisionOp

\* What list_clusters reads of a listed job.
ListedJob(j) ==
  [name |-> j.name, cluster |-> j.cluster, created |-> j.created, env |-> j.env]

\* list_clusters: the keys of the clusters dict, in the order of insertion,
\* for the jobs whose cluster label is not empty
RECURSIVE ClusterKeys(_)
ClusterKeys(items) ==
  IF items = <<>> THEN <<>>
  ELSE LET rest == ClusterKeys(SubSeq(items, 1, Len(items) - 1))
           cluster_name == items[Len(items)].cluster IN
       IF cluster_name = <<>> \/ \E k \in 1..Len(rest) : rest[k] = cluster_name
       THEN rest ELSE Append(rest, cluster_name)

\* a latest job that is the first of the list
LatestJobFirstListed(jobs_list) == jobs_list[1]

\* sorted(jobs_list, key=creation_timestamp, reverse=True)[0]: the sort is
\* stable, so of the jobs with the greatest timestamp the first listed
LatestJob(jobs_list) ==
  LET newest == CHOOSE t \in {jobs_list[k].created : k \in 1..Len(jobs_list)} :
                  \A k \in 1..Len(jobs_list) : jobs_list[k].created <= t
      first == CHOOSE k \in 1..Len(jobs_list) :
                 /\ jobs_list[k].created = newest
                 /\ \A m \in 1..(k - 1) : jobs_list[m].created # newest
  IN jobs_list[first]

\* creation_timestamp.isoformat() if creation_timestamp else None
IsoFormat(t) == IF t = Unset THEN None ELSE ToString(t) \o "Z"

\* list_clusters: the value of the job's environment variable, None without
RECURSIVE EnvValue(_, _)
EnvValue(env, name) ==
  IF env = <<>> THEN None
  ELSE IF env[Len(env)].name = name THEN env[Len(env)].value
  ELSE EnvValue(SubSeq(env, 1, Len(env) - 1), name)

\* ClusterInfo(...) of list_clusters
ClusterInfo(cluster_name, latest_job, job_status) ==
  [cluster_name |-> cluster_name,
   cluster_id |-> cluster_name,
   status |-> job_status.status,
   phase |-> job_status.phase,
   created_at |-> IsoFormat(latest_job.created),
   kubernetes_version |-> EnvValue(latest_job.env, "KUBERNETES_VERSION"),
   instance_type |-> EnvValue(latest_job.env, "INSTANCE_TYPE"),
   last_operation |-> LastOperation(latest_job)]

\* whether the endpoint takes a ClusterRequest body
TakesClusterRequest(op) == op \in {"test", "provision"}

FirstPc(op) ==
  CASE op \in {"test", "provision"} -> "pvc_state"
    [] op = "status" -> "probe"
    [] op = "logs" -> "list_pods"
    [] op = "destroy" -> "read_pvc"
    [] op = "cleanup" -> "list_jobs"
    [] op = "list" -> "list_all"

Done(q, code) == [q EXCEPT !.pc = "done", !.code = code]
Called(q, o) == [q EXCEPT !.out = Append(@, o)]

\* ------------------------------------------------------------------- Init
Init ==
  /\ jobs = {}
  /\ pvcs = {}
  /\ req = [c \in {Process} |-> IdleRequest]
  /\ clock = 0
  /\ vin = <<>>
  /\ vout = "none"
  /\ sjob = NoAnswer
  /\ sres = NoAnswer

\* ---------------------------------------------------------------- requests
\* A client sends a request; the framework validates a ClusterRequest body
\* before the handler runs, and passes a path parameter as it is.
Receive(c, op, name) ==
  /\ req[c].pc \in {"idle", "done"}
  /\ req' = [req EXCEPT ![c] =
       IF TakesClusterRequest(op) /\ ValidateClusterName(name) = "reject"
       THEN Done([IdleRequest EXCEPT !.op = op, !.name = name], 422)
       ELSE IF op = "list"
       THEN [IdleRequest EXCEPT !.op = op, !.pc = FirstPc(op), !.i = 1]
       ELSE [IdleRequest EXCEPT !.op = op, !.name = name, !.pc = FirstPc(op), !.i = 1]]
  /\ UNCHANGED <<jobs, pvcs, clock, vin, vout, sjob, sres>>

\* create_pvcs, the state PVC
CreateStatePvc(c) ==
  /\ req[c].pc = "pvc_state"
  /\ LET n == StatePvcName(req[c].name) IN
     \E o \in CreateOutcomes(n, n \in pvcs) :
       /\ pvcs' = IF o = "ok" THEN pvcs \cup {n} ELSE pvcs
       /\ req' = [req EXCEPT ![c] =
            IF PvcCreateRaises(o) THEN Done(Called(@, o), 500)
            ELSE [Called(@, o) EXCEPT !.pc = "pvc_logs"]]
  /\ UNCHANGED <<jobs, clock, vin, vout, sjob, sres>>

\* create_pvcs, the logs PVC
CreateLogsPvc(c) ==
  /\ req[c].pc = "pvc_logs"
  /\ LET n == LogsPvcName(req[c].name) IN
     \E o \in CreateOutcomes(n, n \in pvcs) :
       /\ pvcs' = IF o = "ok" THEN pvcs \cup {n} ELSE pvcs
       /\ req' = [req EXCEPT ![c] =
            IF PvcCreateRaises(o) THEN Done(Called(@, o), 500)
            ELSE [Called(@, o) EXCEPT !.pc = "create_job"]]
  /\ UNCHANGED <<jobs, clock, vin, vout, sjob, sres>>

\* create_provision_job after create_pvcs, and the handler's response
CreateJob(c) ==
  /\ req[c].pc = "create_job"
  /\ LET job == ProvisionJob(req[c].name, req[c].op = "test") IN
     \E o \in CreateOutcomes(job.name, JobExists(job.name)) :
       /\ jobs' = IF o = "ok" THEN jobs \cup {Stored(job, clock)} ELSE jobs
       /\ req' = [req EXCEPT ![c] =
            LET exc == JobCreateException(o) IN
            IF exc = "none"
            THEN [Done(Called(@, o), ProvisionHttpCode(exc))
                    EXCEPT !.job_name = job.name, !.status = "pending"]
            ELSE Done(Called(@, o), ProvisionHttpCode(exc))]
  /\ UNCHANGED <<pvcs, clock, vin, vout, sjob, sres>>

\* a create_destroy_job that creates the PVCs as create_provision_job does
\* instead of probing the state PVC
ReadOrCreateStatePvc(c) ==
  /\ req[c].pc = "read_pvc"
  /\ \E o \in CreateOutcomes(StatePvcName(req[c].name), StatePvcName(req[c].name) \in pvcs) :
       /\ pvcs' = IF o = "ok" THEN pvcs \cup {StatePvcName(req[c].name)} ELSE pvcs
       /\ req' = [req EXCEPT ![c] =
            IF PvcCreateRaises(o) THEN Done(Called(@, o), 500)
            ELSE [Called(@, o) EXCEPT !.pc = "create_destroy"]]
  /\ UNCHANGED <<jobs, clock, vin, vout, sjob, sres>>

\* create_destroy_job, the probe of the state PVC
ReadStatePvc(c) ==
  /\ req[c].pc = "read_pvc"
  /\ \E o \in ReadOutcomes(StatePvcName(req[c].name) \in pvcs) :
       req' = [req EXCEPT ![c] =
         LET exc == PvcProbeException(o) IN
         IF exc = "none" THEN [Called(@, o) EXCEPT !.pc = "create_destroy"]
         ELSE Done(Called(@, o), DestroyHttpCode(exc))]
  /\ UNCHANGED <<jobs, pvcs, clock, vin, vout, sjob, sres>>

\* create_destroy_job, the job create, and the handler's response
CreateDestroyJob(c) ==
  /\ req[c].pc = "create_destroy"
  /\ LET job == DestroyJob(req[c].name) IN
     \E o \in CreateOutcomes(job.name, JobExists(job.name)) :
       /\ jobs' = IF o = "ok" THEN jobs \cup {Stored(job, clock)} ELSE jobs
       /\ req' = [req EXCEPT ![c] =
            LET exc == JobCreateException(o) IN
            IF exc = "none"
            THEN [Done(Called(@, o), DestroyHttpCode(exc))
                    EXCEPT !.job_name = job.name, !.status = "pending"]
            ELSE Done(Called(@, o), DestroyHttpCode(exc))]
  /\ UNCHANGED <<pvcs, clock, vin, vout, sjob, sres>>

\* get_cluster_status: one turn of the loop over the candidate job names,
\* and the response once the loop ends
ProbeJob(c) ==
  /\ req[c].pc = "probe"
  /\ LET job_name == StatusCandidates(req[c].name)[req[c].i] IN
     \E o \in ReadOutcomes(JobExists(job_name)) :
       req' = [req EXCEPT ![c] =
         IF o = "error" THEN Done(Called(@, o), 500)
         ELSE LET status_info == IF o = "ok" THEN GetJobStatus(JobNamed(job_name))
                                 ELSE NotFoundStatus IN
           IF status_info.status # "not_found"
           THEN IF ClusterStatusValid(status_info)
                THEN [Done(Called(@, o), 200) EXCEPT
                        !.found = job_name, !.job_name = job_name,
                        !.status = status_info.status, !.phase = status_info.phase]
                ELSE [Done(Called(@, o), 500) EXCEPT !.found = job_name]
           ELSE IF req[c].i < Len(StatusCandidates(req[c].name))
                THEN [Called(@, o) EXCEPT !.i = @ + 1]
                ELSE Done(Called(@, o), 404)]
  /\ UNCHANGED <<jobs, pvcs, clock, vin, vout, sjob, sres>>

\* The pods of the cluster: one per job that the job controller has started.
PodsOf(cluster_name) ==
  {j.name : j \in {x \in jobs : /\ SelectorMatches(cluster_name, x)
                                /\ Truthy(x.active) \/ Truthy(x.succeeded) \/ Truthy(x.failed)}}

\* get_logs, the list of the cluster's pods; get_cluster_logs answers with a
\* text when the list fails or is empty
ListPods(c) ==
  /\ req[c].pc = "list_pods"
  /\ \E o \in ListOutcomes :
       req' = [req EXCEPT ![c] =
         IF o = "ok" /\ PodsOf(req[c].name) # {}
         THEN [Called(@, o) EXCEPT !.pc = "read_log"]
         ELSE [Done(Called(@, o), 200) EXCEPT !.status = "logs"]]
  /\ UNCHANGED <<jobs, pvcs, clock, vin, vout, sjob, sres>>

\* get_logs, the read of the first pod's log; a failure is answered with a text
ReadPodLog(c) ==
  /\ req[c].pc = "read_log"
  /\ \E o \in ReadOutcomes(PodsOf(req[c].name) # {}) :
       req' = [req EXCEPT ![c] = [Done(Called(@, o), 200) EXCEPT !.status = "logs"]]
  /\ UNCHANGED <<jobs, pvcs, clock, vin, vout, sjob, sres>>

CleanupPvcs(cluster_name) == <<StatePvcName(cluster_name), LogsPvcName(cluster_name)>>

\* delete_cluster_resources, the list of the cluster's jobs
ListJobs(c) ==
  /\ req[c].pc = "list_jobs"
  /\ \E o \in ListOutcomes :
       IF o = "ok"
       THEN \E items \in Orders({j.name : j \in {x \in jobs : SelectorMatches(req[c].name, x)}}) :
              req' = [req EXCEPT ![c] =
                [Called(@, o) EXCEPT !.listed = items, !.i = 1,
                   !.pc = IF items = <<>> THEN "delete_pvc" ELSE "delete_job"]]
       ELSE req' = [req EXCEPT ![c] =
              IF DeleteResourcesRaises(o) THEN Done(Called(@, o), CleanupHttpCode(TRUE))
              ELSE [Called(@, o) EXCEPT !.i = 1, !.pc = "delete_pvc"]]
  /\ UNCHANGED <<jobs, pvcs, clock, vin, vout, sjob, sres>>

\* delete_cluster_resources, one turn of the loop over the listed jobs
DeleteJob(c) ==
  /\ req[c].pc = "delete_job"
  /\ LET n == req[c].listed[req[c].i] IN
     \E o \in DeleteOutcomes(JobExists(n)) :
       /\ jobs' = IF o = "ok" THEN {j \in jobs : j.name # n} ELSE jobs
       /\ req' = [req EXCEPT ![c] =
            IF o = "ok"
            THEN [Called(@, o) EXCEPT
                    !.deleted.jobs = Append(@, n),
                    !.i = IF req[c].i < Len(req[c].listed) THEN req[c].i + 1 ELSE 1,
                    !.pc = IF req[c].i < Len(req[c].listed) THEN "delete_job" ELSE "delete_pvc"]
            ELSE IF DeleteResourcesRaises(o) THEN Done(Called(@, o), CleanupHttpCode(TRUE))
            ELSE [Called(@, o) EXCEPT !.i = 1, !.pc = "delete_pvc"]]
  /\ UNCHANGED <<pvcs, clock, vin, vout, sjob, sres>>

\* delete_cluster_resources, one turn of the loop over the two PVCs, and
\* cleanup_cluster's response after the second
DeletePvc(c) ==
  /\ req[c].pc = "delete_pvc"
  /\ LET n == CleanupPvcs(req[c].name)[req[c].i] IN
     \E o \in DeleteOutcomes(n \in pvcs) :
       /\ pvcs' = IF o = "ok" THEN pvcs \ {n} ELSE pvcs
       /\ req' = [req EXCEPT ![c] =
            LET q == IF o = "ok" THEN [Called(@, o) EXCEPT !.deleted.pvcs = Append(@, n)]
                     ELSE Called(@, o) IN
            IF o # "ok" /\ DeleteResourcesRaises(o) THEN Done(q, CleanupHttpCode(TRUE))
            ELSE IF req[c].i < Len(CleanupPvcs(req[c].name))
            THEN [q EXCEPT !.i = @ + 1]
            ELSE [Done(q, CleanupHttpCode(FALSE)) EXCEPT !.status = "cleaned_up"]]
  /\ UNCHANGED <<jobs, clock, vin, vout, sjob, sres>>

\* list_clusters, the list of the jobs labeled app=eks-provisioner, and the
\* latest job of each cluster
ListAllJobs(c) ==
  /\ req[c].pc = "list_all"
  /\ \E o \in ListOutcomes :
       IF o = "ok"
       THEN \E items \in Orders({ListedJob(j) : j \in {x \in jobs : x.app = AppLabel}}) :
              req' = [req EXCEPT ![c] =
                LET keys == ClusterKeys(items) IN
                IF keys = <<>> THEN Done(Called(@, o), 200)
                ELSE [Called(@, o) EXCEPT
                        !.latest = [k \in 1..Len(keys) |->
                                      LatestJob(SelectSeq(items, LAMBDA j : j.cluster = keys[k]))],
                        !.i = 1, !.pc = "job_status"]]
       ELSE req' = [req EXCEPT ![c] = Done(Called(@, o), 500)]
  /\ UNCHANGED <<jobs, pvcs, clock, vin, vout, sjob, sres>>

\* list_clusters, one turn of the loop over the clusters: the status of the
\* latest job is read again by name; the response once the loop ends
ClusterEntry(c) ==
  /\ req[c].pc = "job_status"
  /\ LET latest_job == req[c].latest[req[c].i] IN
     \E o \in ReadOutcomes(JobExists(latest_job.name)) :
       req' = [req EXCEPT ![c] =
         IF o = "error" THEN Done(Called(@, o), 500)
         ELSE LET job_status == IF o = "ok" THEN GetJobStatus(JobNamed(latest_job.name))
                                ELSE NotFoundStatus
                  q == [Called(@, o) EXCEPT
                          !.clusters = Append(@, ClusterInfo(latest_job.cluster, latest_job, job_status))] IN
           IF req[c].i < Len(req[c].latest)
           THEN [q EXCEPT !.i = @ + 1]
           ELSE [Done(q, 200) EXCEPT !.total = Len(q.clusters)]]
  /\ UNCHANGED <<jobs, pvcs, clock, vin, vout, sjob, sres>>

\* ---------------------------------------------------- the platform's moves

\* The job controller starts the job's pod.  (A deleted job is gone at once:
\* the foreground deletion's wait for the pods is not modelled.)
JobStart(n) ==
  /\ \E j \in jobs :
       /\ j.name = n
       /\ ~Truthy(j.active) /\ ~Truthy(j.succeeded) /\ ~Truthy(j.failed)
       /\ jobs' = (jobs \ {j}) \cup {[j EXCEPT !.active = 1]}
  /\ UNCHANGED <<pvcs, req, clock, vin, vout, sjob, sres>>

\* The pod ends; with backoff_limit=0 there is no second pod.
JobFinish(n, ok) ==
  /\ \E j \in jobs :
       /\ j.name = n
       /\ Truthy(j.active)
       /\ jobs' = (jobs \ {j}) \cup
            {IF ok THEN [j EXCEPT !.active = Unset, !.succeeded = 1]
                   ELSE [j EXCEPT !.active = Unset, !.failed = 1]}
  /\ UNCHANGED <<pvcs, req, clock, vin, vout, sjob, sres>>

\* ttl_seconds_after_finished: the platform deletes a finished test job.
TtlExpire(n) ==
  /\ \E j \in jobs :
       /\ j.name = n
       /\ j.ttl # Unset
       /\ Truthy(j.succeeded) \/ Truthy(j.failed)
       /\ jobs' = jobs \ {j}
  /\ UNCHANGED <<pvcs, req, clock, vin, vout, sjob, sres>>

JobNames == {j.name : j \in jobs}

Next ==
  \/ \E c \in DOMAIN req, op \in Endpoints, name \in ClusterNames : Receive(c, op, name)
  \/ \E c \in DOMAIN req : CreateStatePvc(c)
  \/ \E c \in DOMAIN req : CreateLogsPvc(c)
  \/ \E c \in DOMAIN req : CreateJob(c)
  \/ \E c \in DOMAIN req : ReadStatePvc(c)
  \/ \E c \in DOMAIN req : CreateDestroyJob(c)
  \/ \E c \in DOMAIN req : ProbeJob(c)
  \/ \E c \in DOMAIN req : ListPods(c)
  \/ \E c \in DOMAIN req : ReadPodLog(c)
  \/ \E c \in DOMAIN req : ListJobs(c)
  \/ \E c \in DOMAIN req : DeleteJob(c)
  \/ \E c \in DOMAIN req : DeletePvc(c)
  \/ \E c \in DOMAIN req : ListAllJobs(c)
  \/ \E c \in DOMAIN req : ClusterEntry(c)
  \/ \E n \in JobNames : JobStart(n)
  \/ \E n \in JobNames, ok \in BOOLEAN : JobFinish(n, ok)
  \/ \E n \in JobNames : TtlExpire(n)

Spec == Init /\ [][Next]_vars

\* ------------------------------------------------- the validator on its own
InitValidate ==
  /\ jobs = {}
  /\ pvcs = {}
  /\ req = [c \in {Process} |-> IdleRequest]
  /\ clock = 0
  /\ vin \in ValidatorInputs(MaxRuns)
  /\ vout = "none"
  /\ sjob = NoAnswer
  /\ sres = NoAnswer

\* ClusterRequest(cluster_name=vin, ...)
Validate ==
  /\ vout = "none"
  /\ vout' = ValidateClusterName(vin)
  /\ UNCHANGED <<jobs, pvcs, req, clock, vin, sjob, sres>>

SpecValidate == InitValidate /\ [][Validate]_vars

\* ------------------------------------ two API processes, one cluster name
RaceNames == {<<"a">>, <<"b", "-", "1">>}

\* Both processes have received a create request for the same cluster name
\* and the same operation; the PVCs and the jobs of the other operations may
\* be there from earlier requests.
InitRace ==
  \E name \in RaceNames, op \in {"test", "provision"} :
    /\ req = [c \in Replicas |->
                [IdleRequest EXCEPT !.op = op, !.name = name, !.pc = FirstPc(op), !.i = 1]]
    /\ pvcs \in SUBSET {StatePvcName(name), LogsPvcName(name)}
    /\ jobs \in SUBSET {Stored(ProvisionJob(name, op # "test"), 0), Stored(DestroyJob(name), 0)}
    /\ clock = 0
    /\ vin = <<>>
    /\ vout = "none"
    /\ sjob = NoAnswer
    /\ sres = NoAnswer

NextRace ==
  \/ \E c \in DOMAIN req : CreateStatePvc(c)
  \/ \E c \in DOMAIN req : CreateLogsPvc(c)
  \/ \E c \in DOMAIN req : CreateJob(c)
  \/ \E n \in JobNames : JobStart(n)
  \/ \E n \in JobNames, ok \in BOOLEAN : JobFinish(n, ok)

SpecRace == InitRace /\ [][NextRace]_vars

\* ------------------- a create or destroy request and a concurrent cleanup
\* One process has received a test, provision or destroy request and the
\* other a cleanup request for the same cluster name; the PVCs and jobs of
\* the cluster may be there from earlier requests.
InitTorn ==
  \E name \in RaceNames, op \in {"test", "provision", "destroy"} :
    /\ req = [c \in Replicas |->
                IF c = Process
                THEN [IdleRequest EXCEPT !.op = op, !.name = name, !.pc = FirstPc(op), !.i = 1]
                ELSE [IdleRequest EXCEPT !.op = "cleanup", !.name = name,
                                         !.pc = FirstPc("cleanup"), !.i = 1]]
    /\ pvcs \in SUBSET {StatePvcName(name), LogsPvcName(name)}
    /\ jobs \in SUBSET {Stored(ProvisionJob(name, op # "test"), 0), Stored(DestroyJob(name), 0)}
    /\ clock = 0
    /\ vin = <<>>
    /\ vout = "none"
    /\ sjob = NoAnswer
    /\ sres = NoAnswer

NextTorn ==
  \/ \E c \in DOMAIN req : CreateStatePvc(c)
  \/ \E c \in DOMAIN req : CreateLogsPvc(c)
  \/ \E c \in DOMAIN req : CreateJob(c)
  \/ \E c \in DOMAIN req : ReadStatePvc(c)
  \/ \E c \in DOMAIN req : CreateDestroyJob(c)
  \/ \E c \in DOMAIN req : ListJobs(c)
  \/ \E c \in DOMAIN req : DeleteJob(c)
  \/ \E c \in DOMAIN req : DeletePvc(c)

SpecTorn == InitTorn /\ [][NextTorn]_vars

\* --------------------------------------------- cleanup among two clusters
\* Cluster "a" and the cluster whose name is that of a job of "a".
CleanupNames == {<<"a">>, JobName(TestOp, <<"a">>)}

\* Any of the test and destroy jobs and of the PVCs of the two clusters are
\* there from earlier requests.
InitCleanup ==
  /\ jobs \in SUBSET UNION {{Stored(ProvisionJob(name, TRUE), 0), Stored(DestroyJob(name), 0)} :
                              name \in CleanupNames}
  /\ pvcs \in SUBSET UNION {{StatePvcName(name), LogsPvcName(name)} : name \in CleanupNames}
  /\ req = [c \in {Process} |-> IdleRequest]
  /\ clock = 0
  /\ vin = <<>>
  /\ vout = "none"
  /\ sjob = NoAnswer
  /\ sres = NoAnswer

NextCleanup ==
  \/ \E c \in DOMAIN req, name \in CleanupNames : Receive(c, "cleanup", name)
  \/ \E c \in DOMAIN req : ListJobs(c)
  \/ \E c \in DOMAIN req : DeleteJob(c)
  \/ \E c \in DOMAIN req : DeletePvc(c)

SpecCleanup == InitCleanup /\ [][NextCleanup]_vars

\* ---------------------------------------------- get_job_status on its own
Counters == {Unset} \cup 0..MaxCount

InitStatus ==
  /\ jobs = {}
  /\ pvcs = {}
  /\ req = [c \in {Process} |-> IdleRequest]
  /\ clock = 0
  /\ vin = <<>>
  /\ vout = "none"
  /\ sjob \in {[outcome |-> "ok", succeeded |-> s, failed |-> f, active |-> a] :
                 s \in Counters, f \in Counters, a \in Counters}
              \cup {[outcome |-> o, succeeded |-> Unset, failed |-> Unset, active |-> Unset] :
                      o \in {"notfound", "error"}}
  /\ sres = NoAnswer

\* get_job_status(job_name)
ReadJobStatus ==
  /\ sres = NoAnswer
  /\ sres' = GetJobStatusOf(sjob)
  /\ UNCHANGED <<jobs, pvcs, req, clock, vin, vout, sjob>>

SpecStatus == InitStatus /\ [][ReadJobStatus]_vars

\* ------------------------------------- list_clusters over two clusters' jobs
ListNames == {<<"a">>, DestroyOp}
Versions == {"1.31", "1.33"}

\* Jobs that earlier requests have created: a test and a destroy job of
\* cluster "a" and a provision job of cluster "destroy", each created at some
\* second up to now.
InitList ==
  /\ clock = MaxClock
  /\ \E kubernetes_version \in Versions :
       \E A \in SUBSET {ProvisionJob(<<"a">>, TRUE), DestroyJob(<<"a">>),
                        [ProvisionJob(DestroyOp, FALSE) EXCEPT
                           !.env = ProvisionEnv(DestroyOp, kubernetes_version,
                                                RequestBody.instance_type,
                                                RequestBody.ip_family, FALSE)]} :
         \E at \in [A -> 0..clock] : jobs = {Stored(j, at[j]) : j \in A}
  /\ pvcs = UNION {{StatePvcName(j.cluster), LogsPvcName(j.cluster)} : j \in jobs}
  /\ req = [c \in {Process} |-> IdleRequest]
  /\ vin = <<>>
  /\ vout = "none"
  /\ sjob = NoAnswer
  /\ sres = NoAnswer

NextList ==
  \/ \E c \in DOMAIN req : Receive(c, "list", <<>>)
  \/ \E c \in DOMAIN req : ListAllJobs(c)
  \/ \E c \in DOMAIN req : ClusterEntry(c)
  \/ \E n \in JobNames : JobStart(n)
  \/ \E n \in JobNames, ok \in BOOLEAN : JobFinish(n, ok)
  \/ \E n \in JobNames : TtlExpire(n)

SpecList == InitList /\ [][NextList]_vars

\* ================================================================== claims
Last(s) == s[Len(s)]
InFlight(q) == q.pc \notin {"idle", "done"}
ClientError(code) == code \in 400..499

\* The names as the specification spells them.
TestDash == <<"t","e","s","t","-">>
ProvisionDash == <<"p","r","o","v","i","s","i","o","n","-">>
DestroyDash == <<"d","e","s","t","r","o","y","-">>
TfstateDash == <<"t","f","s","t","a","t","e","-">>
TflogsDash == <<"t","f","l","o","g","s","-">>

\* C1: the step of a provision request that asks the platform to create the
\* job: when no job provision-<name> exists and the platform call goes
\* through, the request answers 202 with job_name provision-<name> and that
\* one job exists; when the job exists, in whatever state, the request does
\* not answer 202, the platform's conflict is answered with a client error,
\* and the set of jobs is what it was.
C1_SecondProvisionConflicts ==
  [][\A c \in DOMAIN req :
       (req[c].op = "provision" /\ req[c].pc = "create_job" /\ req'[c].pc = "done") =>
         LET n == ProvisionDash \o req[c].name
             o == Last(req'[c].out) IN
         IF \E j \in jobs : j.name = n
         THEN /\ jobs' = jobs
              /\ req'[c].code # 202
              /\ o \in {"conflict", "error"}
              /\ o = "conflict" => req'[c].code = 400 /\ ClientError(req'[c].code)
         ELSE o = "ok" =>
              /\ req'[c].code = 202
              /\ req'[c].job_name = n
              /\ Cardinality({j \in jobs' : j.name = n}) = 1
              /\ Cardinality(jobs') = Cardinality(jobs) + 1]_vars

\* C1 witness: a provision request was refused with 400 while the job of the
\* first request exists and has completed.
C1_Witness ==
  \E c \in DOMAIN req :
    /\ req[c].op = "provision" /\ req[c].pc = "done" /\ req[c].code = 400
    /\ Last(req[c].out) = "conflict"
    /\ \E j \in jobs : j.name = ProvisionDash \o req[c].name /\ j.succeeded = 1

\* C2: two create requests for the same cluster name and operation, their
\* platform calls interleaved in any order: never do both answer 202, there
\* is never more than one job of that name, and once both have answered
\* without an API failure of the platform, exactly one answered 202 and the
\* other answered the conflict with 400.
C2_OneWinner ==
  LET n == (IF req["c1"].op = "test" THEN TestDash ELSE ProvisionDash) \o req["c1"].name IN
  /\ ~(req["c1"].code = 202 /\ req["c2"].code = 202)
  /\ Cardinality({j \in jobs : j.name = n}) <= 1
  /\ (req["c1"].code = 202 \/ req["c2"].code = 202) => \E j \in jobs : j.name = n
  /\ ( /\ req["c1"].pc = "done" /\ req["c2"].pc = "done"
       /\ \A c \in {"c1", "c2"} : \A k \in 1..Len(req[c].out) : req[c].out[k] # "error" )
     => \E w \in {"c1", "c2"} : \A l \in {"c1", "c2"} \ {w} :
          /\ req[w].code = 202 /\ req[w].job_name = n
          /\ req[l].code = 400 /\ Last(req[l].out) = "conflict"

\* C2 witness: both requests have answered, one with 202 and one with 400,
\* and the loser created a PVC before the winner created the job.
C2_Witness ==
  /\ req["c1"].pc = "done" /\ req["c2"].pc = "done"
  /\ req["c1"].code = 202 /\ req["c2"].code = 400
  /\ req["c2"].out = <<"ok", "conflict", "conflict">>
  /\ req["c1"].out = <<"conflict", "ok", "ok">>

\* C3: a PVC create of a test or provision request that finds the PVC there
\* leaves the PVCs as they are and, unless the platform call itself failed,
\* the request goes on to its next step; a request that ended before its
\* job create ended on a platform failure, never on a conflict; and after
\* create_pvcs the two PVCs tfstate-<name> and tflogs-<name> exist.
C3_PvcCreateIdempotent ==
  [][\A c \in DOMAIN req :
       (req[c].op \in {"test", "provision"} /\ req[c].pc \in {"pvc_state", "pvc_logs"}
          /\ req'[c] # req[c]) =>
         LET n == (IF req[c].pc = "pvc_state" THEN TfstateDash ELSE TflogsDash) \o req[c].name
             o == Last(req'[c].out) IN
         /\ n \in pvcs =>
              /\ pvcs' = pvcs
              /\ o \in {"conflict", "error"}
              /\ o = "conflict" =>
                   /\ req'[c].pc = (IF req[c].pc = "pvc_state" THEN "pvc_logs" ELSE "create_job")
                   /\ req'[c].code = 0
         /\ req'[c].pc = "done" => o \in {"error", "invalid"} /\ req'[c].code = 500
         /\ req'[c].pc = "create_job" =>
              {TfstateDash \o req[c].name, TflogsDash \o req[c].name} \subseteq pvcs']_vars

\* C3 witness: a request whose two PVC creates both met an existing PVC went
\* on and created its job.
C3_Witness ==
  \E c \in DOMAIN req :
    /\ req[c].op = "test" /\ req[c].pc = "done" /\ req[c].code = 202
    /\ req[c].out = <<"conflict", "conflict", "ok">>
    /\ {TfstateDash \o req[c].name, TflogsDash \o req[c].name} \subseteq pvcs

\* C4: the status request on the test job: when the platform returns the job
\* the request answers 200 with status completed when succeeded > 0, failed
\* when failed > 0 and succeeded is not, and pending or running while both
\* are zero; it answers 404 when none of the three jobs is found; and it
\* answers 500 only when a platform call failed.
C4_StatusFromCounters ==
  [][\A c \in DOMAIN req :
       (req[c].op = "status" /\ req[c].pc = "probe" /\ req'[c].pc = "done") =>
         LET o == Last(req'[c].out) IN
         /\ req'[c].code = 500 => o = "error"
         /\ (o = "notfound") => req'[c].code = 404
         /\ (o = "ok" /\ req[c].i = 1) =>
              \E j \in jobs :
                /\ j.name = TestDash \o req[c].name
                /\ req'[c].code = 200
                /\ req'[c].job_name = j.name
                /\ IF j.succeeded > 0 THEN req'[c].status = "completed"
                   ELSE IF j.failed > 0 THEN req'[c].status = "failed"
                   ELSE req'[c].status \in {"pending", "running"}]_vars

\* C5: a destroy request whose state PVC tfstate-<name> does not exist
\* answers 404 at its probe and leaves the jobs as they are, whatever jobs
\* exist; a destroy request whose probe found the PVC, when no job
\* destroy-<name> exists and the create goes through, creates that one job
\* and answers with its name; no step of a destroy request changes the PVCs.
C5_DestroyNeedsStatePvc ==
  [][\A c \in DOMAIN req :
       (req[c].op = "destroy" /\ InFlight(req[c]) /\ req'[c] # req[c]) =>
         LET n == DestroyDash \o req[c].name IN
         /\ pvcs' = pvcs
         /\ req[c].pc = "read_pvc" =>
              /\ jobs' = jobs
              /\ (TfstateDash \o req[c].name) \notin pvcs =>
                   /\ req'[c].pc = "done" /\ req'[c].code = 404
                   /\ req'[c].job_name = <<>>
              /\ req'[c].pc # "done" => (TfstateDash \o req[c].name) \in pvcs
         /\ (req[c].pc = "create_destroy" /\ ~(\E j \in jobs : j.name = n)
               /\ Last(req'[c].out) = "ok") =>
              /\ req'[c].pc = "done" /\ req'[c].code = 200 /\ req'[c].job_name = n
              /\ \E j \in jobs' : j.name = n /\ jobs' = jobs \cup {j}]_vars

\* C5 witness: a destroy request was answered 404 for want of the state PVC
\* while a test job and a destroy job of the cluster exist.
C5_Witness ==
  \E c \in DOMAIN req :
    /\ req[c].op = "destroy" /\ req[c].pc = "done" /\ req[c].code = 404
    /\ req[c].out = <<"notfound">>
    /\ (TfstateDash \o req[c].name) \notin pvcs
    /\ \E j \in jobs : j.name = TestDash \o req[c].name
    /\ \E j \in jobs : j.name = DestroyDash \o req[c].name

\* C6: a cleanup request never answers anything but 200 with its tally,
\* whichever of its list and delete calls fail; its tally grows only by a
\* job or PVC that existed and whose delete went through, so that a cleanup
\* of a cluster with no job and no PVC ends with an empty tally.
C6_CleanupNeverFails ==
  [][\A c \in DOMAIN req :
       (req[c].op = "cleanup" /\ InFlight(req[c]) /\ req'[c] # req[c]) =>
         LET name == req[c].name
             none == /\ ~(\E j \in jobs : j.cluster = name)
                     /\ (TfstateDash \o name) \notin pvcs
                     /\ (TflogsDash \o name) \notin pvcs IN
         /\ req[c].pc = "list_jobs" => req[c].deleted = [jobs |-> <<>>, pvcs |-> <<>>]
         /\ req'[c].pc = "done" => req'[c].code = 200 /\ req'[c].status = "cleaned_up"
         /\ req'[c].pc # "done" => req'[c].code = 0
         /\ none => req'[c].deleted = req[c].deleted /\ Last(req'[c].out) # "conflict"
         /\ req'[c].deleted # req[c].deleted =>
              /\ Last(req'[c].out) = "ok"
              /\ \/ /\ req'[c].deleted.pvcs = req[c].deleted.pvcs
                    /\ \E j \in jobs : /\ j.cluster = name
                                       /\ req'[c].deleted.jobs = Append(req[c].deleted.jobs, j.name)
                                       /\ jobs' = jobs \ {j}
                 \/ /\ req'[c].deleted.jobs = req[c].deleted.jobs
                    /\ \E n \in pvcs : /\ n \in {TfstateDash \o name, TflogsDash \o name}
                                       /\ req'[c].deleted.pvcs = Append(req[c].deleted.pvcs, n)
                                       /\ pvcs' = pvcs \ {n}]_vars

\* C6 witness: a cleanup whose list call and one PVC delete failed answered
\* 200 with the one PVC it deleted.
C6_Witness ==
  \E c \in DOMAIN req :
    /\ req[c].op = "cleanup" /\ req[c].pc = "done" /\ req[c].code = 200
    /\ req[c].out = <<"error", "error", "ok">>
    /\ req[c].deleted = [jobs |-> <<>>, pvcs |-> <<TflogsDash \o req[c].name>>]
    /\ jobs # {}

\* C7 (the order of the reads alone): a status request reads the jobs test-<name>, provision-<name>,
\* destroy-<name> in that order, one per step; the job it settles on is the
\* first of the three that exists when it is read, every candidate before it
\* is missing and no candidate after it is read; a 200 answer names that job.
C7_FirstCandidateWins ==
  [][\A c \in DOMAIN req :
       (req[c].op = "status" /\ req[c].pc = "probe" /\ req'[c] # req[c]) =>
         LET cands == <<TestDash \o req[c].name, ProvisionDash \o req[c].name,
                        DestroyDash \o req[c].name>>
             k == Len(req[c].out) + 1
             o == Last(req'[c].out) IN
         /\ Len(req'[c].out) = k /\ k <= 3
         /\ o = "ok" <=> (o # "error" /\ \E j \in jobs : j.name = cands[k])
         /\ o = "ok" =>
              /\ req'[c].pc = "done"
              /\ req'[c].found = cands[k]
              /\ \A m \in 1..(k - 1) : ~(\E j \in jobs : j.name = cands[m])
              /\ req'[c].code = 200 => req'[c].job_name = cands[k]
         /\ o = "notfound" =>
              /\ req'[c].found = <<>>
              /\ IF k < 3 THEN req'[c].pc = "probe" ELSE req'[c].code = 404
         /\ req'[c].code = 200 => o = "ok"]_vars

\* C7 witness: with the provision job and the destroy job of the cluster
\* both there and no test job, the status request answered for the
\* provision job after two reads.
C7_Witness ==
  \E c \in DOMAIN req :
    /\ req[c].op = "status" /\ req[c].pc = "done" /\ req[c].code = 200
    /\ req[c].job_name = ProvisionDash \o req[c].name
    /\ req[c].out = <<"notfound", "ok">>
    /\ \E j \in jobs : j.name = DestroyDash \o req[c].name
    /\ \E j \in jobs : j.name = ProvisionDash \o req[c].name

\* C7: a status request that ends without a platform failure while several
\* of test-<name>, provision-<name>, destroy-<name> exist answers 200 with
\* the name and the status of the first of them in that order, whatever the
\* state of that job, after reading no candidate behind it.
C7_ReportsFirstExisting ==
  [][\A c \in DOMAIN req :
       (req[c].op = "status" /\ req[c].pc = "probe" /\ req'[c].pc = "done"
          /\ Last(req'[c].out) # "error") =>
         LET cands == <<TestDash \o req[c].name, ProvisionDash \o req[c].name,
                        DestroyDash \o req[c].name>>
             there == {k \in 1..3 : \E j \in jobs : j.name = cands[k]} IN
         Cardinality(there) >= 2 =>
           LET first == CHOOSE k \in there : \A m \in there : k <= m IN
           /\ req'[c].code = 200
           /\ req'[c].job_name = cands[first]
           /\ Len(req'[c].out) = first
           /\ \E j \in jobs :
                /\ j.name = cands[first]
                /\ req'[c].status = (IF j.succeeded > 0 THEN "completed"
                                     ELSE IF j.failed > 0 THEN "failed" ELSE "running")]_vars

\* The DNS-label grammar: 1 to 100 characters, each a lowercase letter, a
\* digit or a hyphen, the first and the last a letter or a digit.
IsDnsLabel(v) ==
  /\ Len(v) >= 1 /\ Len(v) <= 100
  /\ \A k \in 1..Len(v) : v[k] \in LowerChars \cup DigitChars \cup {"-"}
  /\ v[1] # "-" /\ v[Len(v)] # "-"

\* C8: ClusterRequest accepts a cluster_name exactly when it is a DNS label.
C8_AcceptsExactlyDnsLabels ==
  vout # "none" => (vout = "accept" <=> IsDnsLabel(vin))

\* C9: a request whose cluster name is not a DNS label makes no platform
\* call, and is answered with a client error.
C9_InvalidNameNoPlatformCall ==
  \A c \in DOMAIN req :
    (req[c].op # "none" /\ ~IsDnsLabel(req[c].name)) =>
      /\ req[c].out = <<>>
      /\ req[c].pc = "done" => ClientError(req[c].code)

\* C10: every job a request creates is named test-<name>, provision-<name>
\* or destroy-<name> after the request's operation and cluster name, carries
\* the cluster label, and binds its volumes to tfstate-<name> and
\* tflogs-<name>; a test or provision request answers 202 exactly when its
\* create went through, with status pending and the name of a job that is on
\* the platform at that moment.
C10_JobAndPvcNames ==
  [][\A c \in DOMAIN req :
       (req[c].pc \in {"create_job", "create_destroy"} /\ req'[c] # req[c]) =>
         LET name == req[c].name
             n == (CASE req[c].op = "test" -> TestDash
                     [] req[c].op = "provision" -> ProvisionDash
                     [] req[c].op = "destroy" -> DestroyDash) \o name
             o == Last(req'[c].out) IN
         /\ \A j \in jobs' \ jobs :
              /\ j.name = n
              /\ j.cluster = name
              /\ j.state_claim = TfstateDash \o name
              /\ j.logs_claim = TflogsDash \o name
         /\ o = "ok" <=> (jobs' # jobs)
         /\ o = "ok" =>
              /\ req'[c].code = (IF req[c].op = "destroy" THEN 200 ELSE 202)
              /\ req'[c].status = "pending"
              /\ req'[c].job_name = n
              /\ \E j \in jobs' : j.name = req'[c].job_name /\ j \notin jobs
         /\ req'[c].code \in {200, 202} => o = "ok"]_vars

\* C10 witness: a test request answered 202 with
\* job_name test-<name> while that job, bound to the two PVCs, exists.
C10_Witness ==
  \E c \in DOMAIN req :
    /\ req[c].op = "test" /\ req[c].pc = "done" /\ req[c].code = 202
    /\ req[c].job_name = TestDash \o req[c].name
    /\ \E j \in jobs : /\ j.name = req[c].job_name
                       /\ j.state_claim = TfstateDash \o req[c].name
                       /\ j.logs_claim = TflogsDash \o req[c].name
                       /\ {j.state_claim, j.logs_claim} \subseteq pvcs

\* the platform failures that are neither a conflict on create nor a not-found
PlatformFailure(o) == o \in {"error", "invalid"}

\* C11: a test, provision, destroy, status or list request during which a
\* platform call failed with something other than a conflict on create or a
\* not-found is answered 500, and the failed call is the last one it made
\* (nothing is tried again).
C11_PlatformFailureIs500 ==
  \A c \in DOMAIN req :
    (/\ req[c].pc = "done"
     /\ req[c].op \in {"test", "provision", "destroy", "status", "list"}
     /\ \E k \in 1..Len(req[c].out) : PlatformFailure(req[c].out[k]))
    => /\ req[c].code = 500
       /\ \A k \in 1..Len(req[c].out) : PlatformFailure(req[c].out[k]) <=> k = Len(req[c].out)

\* C12: a test, provision or destroy request whose job create met an existing
\* job of the same name is answered with a client error that is not the 422
\* of a rejected body and, for a destroy request, not the 404 of a missing
\* state PVC.
C12_ConflictIsItsOwnClientError ==
  \A c \in DOMAIN req :
    (/\ req[c].pc = "done"
     /\ req[c].op \in {"test", "provision", "destroy"}
     /\ req[c].out # <<>> /\ Last(req[c].out) = "conflict")
    => /\ ClientError(req[c].code)
       /\ req[c].code # 422
       /\ req[c].op = "destroy" => req[c].code # 404

\* C13: a cleanup whose list call succeeded has tried to delete every listed
\* job and both PVCs, whatever the deletes answered, and its tally holds
\* exactly the names whose delete succeeded, in the order of the calls.
C13_CleanupTriesEveryDelete ==
  \A c \in DOMAIN req :
    (/\ req[c].pc = "done" /\ req[c].op = "cleanup"
     /\ req[c].out # <<>> /\ req[c].out[1] = "ok")
    => LET n == Len(req[c].listed)
           attempted == [k \in 1..(n + 2) |->
                           IF k <= n THEN req[c].listed[k]
                           ELSE IF k = n + 1 THEN TfstateDash \o req[c].name
                           ELSE TflogsDash \o req[c].name] IN
       /\ Len(req[c].out) = 1 + n + 2
       /\ req[c].deleted.jobs \o req[c].deleted.pvcs =
            SelectSeq(attempted, LAMBDA r : \E k \in 1..(n + 2) :
                                   attempted[k] = r /\ req[c].out[k + 1] = "ok")

\* the jobs labeled app=eks-provisioner that carry a cluster label
LabeledJobs == {j \in jobs : j.app = AppLabel /\ j.cluster # <<>>}
Newest(j) == \A x \in LabeledJobs : x.cluster = j.cluster => x.created <= j.created
\* the entry's field is the value of the job's environment variable, or
\* absent when the job has no such variable
FromEnv(field, env, name) ==
  \/ \E k \in 1..Len(env) : env[k].name = name /\ env[k].value = field
  \/ (\A k \in 1..Len(env) : env[k].name # name) /\ field = None

\* C14 as stated: the entry that list_clusters adds for a cluster carries the
\* status, phase, creation time, version and instance type of a job of that
\* cluster that has the latest creation timestamp.
C14_EntryOfLatestJob ==
  [][\A c \in DOMAIN req :
       (req[c].pc = "job_status" /\ Len(req'[c].clusters) = Len(req[c].clusters) + 1)
       => LET e == Last(req'[c].clusters) IN
          \E j \in LabeledJobs :
            /\ j.cluster = e.cluster_name /\ Newest(j)
            /\ e.status = GetJobStatus(j).status /\ e.phase = GetJobStatus(j).phase
            /\ e.created_at = ToString(j.created) \o "Z"
            /\ FromEnv(e.kubernetes_version, j.env, "KUBERNETES_VERSION")
            /\ FromEnv(e.instance_type, j.env, "INSTANCE_TYPE")]_vars

\* C14, amended: a successful list call yields one cluster per distinct
\* cluster label, each with a listed job of that cluster than which none is
\* newer; the entry of a cluster carries the creation time, version and
\* instance type of that job as listed, and the status and phase the
\* platform reports for it when its status is read again, not_found and
\* NotFound when the job has been deleted since; the total is the number of
\* entries.
C14_EntryOfRequeriedLatestJob ==
  [][\A c \in DOMAIN req :
       /\ (req[c].pc = "list_all" /\ req'[c].pc # "list_all" /\ Last(req'[c].out) = "ok")
          => LET labels == {j.cluster : j \in LabeledJobs}
                 latest == req'[c].latest IN
             /\ Len(latest) = Cardinality(labels)
             /\ {latest[k].cluster : k \in 1..Len(latest)} = labels
             /\ \A k \in 1..Len(latest) :
                  \E j \in LabeledJobs :
                    /\ Newest(j)
                    /\ latest[k] = [name |-> j.name, cluster |-> j.cluster,
                                    created |-> j.created, env |-> j.env]
             /\ labels = {} => /\ req'[c].pc = "done" /\ req'[c].code = 200
                               /\ req'[c].clusters = <<>> /\ req'[c].total = 0
       /\ (/\ req[c].pc = "job_status" /\ Len(req'[c].out) = Len(req[c].out) + 1
           /\ Last(req'[c].out) # "error")
          => LET l == req[c].latest[req[c].i]
                 e == Last(req'[c].clusters) IN
             /\ Len(req'[c].clusters) = req[c].i
             /\ e.cluster_name = l.cluster
             /\ e.created_at = ToString(l.created) \o "Z"
             /\ FromEnv(e.kubernetes_version, l.env, "KUBERNETES_VERSION")
             /\ FromEnv(e.instance_type, l.env, "INSTANCE_TYPE")
             /\ IF \E j \in jobs : j.name = l.name
                THEN \E j \in jobs : /\ j.name = l.name
                                      /\ e.status = GetJobStatus(j).status
                                      /\ e.phase = GetJobStatus(j).phase
                ELSE e.status = "not_found" /\ e.phase = "NotFound"
             /\ req[c].i = Len(req[c].latest)
                  => /\ req'[c].pc = "done" /\ req'[c].code = 200
                     /\ req'[c].total = Len(req[c].latest)
                     /\ req'[c].total = Len(req'[c].clusters)]_vars

\* a list of two clusters is answered; cluster "a" has two jobs created at
\* different times and its entry carries the later time
C14_Witness ==
  \E c \in DOMAIN req :
    /\ req[c].op = "list" /\ req[c].pc = "done" /\ req[c].code = 200
    /\ req[c].total = 2
    /\ \E j, x \in jobs :
         /\ j.cluster = <<"a">> /\ x.cluster = <<"a">> /\ x.created < j.created
         /\ \E k \in 1..Len(req[c].clusters) :
              /\ req[c].clusters[k].cluster_name = <<"a">>
              /\ req[c].clusters[k].created_at = ToString(j.created) \o "Z"

\* C19: the entry that list_clusters adds for a cluster says "destroy" as
\* last operation when the cluster's latest job is its destroy job,
\* destroy-<cluster>, and "provision" when it is any other job, whatever the
\* cluster is called.
C19_LastOperationOfLatestJob ==
  [][\A c \in DOMAIN req :
       (req[c].pc = "job_status" /\ Len(req'[c].clusters) = Len(req[c].clusters) + 1)
       => LET l == req[c].latest[req[c].i]
              e == Last(req'[c].clusters) IN
          e.last_operation = IF l.name = DestroyDash \o l.cluster
                             THEN <<"d","e","s","t","r","o","y">>
                             ELSE <<"p","r","o","v","i","s","i","o","n">>]_vars

\* a counter as get_job_status reports it
Reported(x) == IF x = Unset THEN 0 ELSE x

\* C15: get_job_status answers a job that exists with completed when its
\* succeeded counter is positive, failed counter or not; with failed, and a
\* message citing the failed count, when succeeded is zero or unset and
\* failed is positive; with running otherwise; it returns the not_found
\* sentinel exactly when the platform reports the job missing, and raises
\* on any other failure; the counters it reports are the job's, an unset
\* one as 0.
C15_StatusOfCounters ==
  sres # NoAnswer =>
    /\ sjob.outcome = "ok" =>
         /\ sres.status = IF sjob.succeeded > 0 THEN "completed"
                          ELSE IF sjob.failed > 0 THEN "failed" ELSE "running"
         /\ sres.status = "failed"
              => sres.message = "Job failed with " \o ToString(sjob.failed) \o " failures"
         /\ sres.succeeded = Reported(sjob.succeeded)
         /\ sres.failed = Reported(sjob.failed)
         /\ sres.active = Reported(sjob.active)
    /\ sres.status = "not_found" <=> sjob.outcome = "notfound"
    /\ sres = Raised <=> sjob.outcome = "error"

\* a job with both a success and a failure counted was answered completed
C15_Witness ==
  /\ sjob.outcome = "ok" /\ sjob.succeeded > 0 /\ sjob.failed > 0
  /\ sres # NoAnswer /\ sres.status = "completed"

\* a step of the request that process c is handling
HandlerStep(c) == InFlight(req[c]) /\ req'[c] # req[c]

\* C16: no step of a destroy request creates or deletes a PVC, and the only
\* step of one that changes the jobs is the create of destroy-<name> that
\* ends it with 200, so a destroy request that fails leaves jobs and PVCs
\* as they were; no step of a status, logs or list request changes the
\* jobs or the PVCs.
C16_OnlyDestroySuccessWrites ==
  [][\A c \in DOMAIN req :
       /\ (HandlerStep(c) /\ req[c].op = "destroy")
          => /\ pvcs' = pvcs
             /\ \/ jobs' = jobs
                \/ /\ req'[c].pc = "done" /\ req'[c].code = 200
                   /\ jobs \subseteq jobs'
                   /\ \A j \in jobs' \ jobs : j.name = DestroyDash \o req[c].name
       /\ (HandlerStep(c) /\ req[c].op \in {"status", "logs", "list"})
          => jobs' = jobs /\ pvcs' = pvcs]_vars

\* a destroy request has failed on its job create while the state PVC and
\* the earlier destroy job are there
C16_Witness ==
  \E c \in DOMAIN req :
    /\ req[c].op = "destroy" /\ req[c].pc = "done" /\ req[c].code # 200
    /\ req[c].out = <<"ok", "conflict">>
    /\ TfstateDash \o req[c].name \in pvcs
    /\ \E j \in jobs : j.name = DestroyDash \o req[c].name

\* C17: whenever a job is created, the state PVC it mounts exists, also
\* while a cleanup of the same cluster runs beside the creating request.
C17_JobCreatedWithStatePvc ==
  [][\A j \in jobs' \ jobs : j.state_claim \in pvcs]_vars

\* the jobs and the PVCs of a cluster
JobsOf(d) == {j \in jobs : j.cluster = d}
PvcsOf(d) == pvcs \cap {TfstateDash \o d, TflogsDash \o d}

\* C18: no step of a cleanup of cluster c changes the jobs labeled with
\* another cluster d or the PVCs of d, also when the name of d is that of a
\* job of c; and when every platform call of the cleanup has succeeded, no
\* job labeled c and neither PVC of c is left as it ends.
C18_CleanupOfOneCluster ==
  [][\A c \in DOMAIN req :
       (HandlerStep(c) /\ req[c].op = "cleanup")
       => /\ \A d \in CleanupNames \ {req[c].name} :
               /\ {j \in jobs' : j.cluster = d} = JobsOf(d)
               /\ pvcs' \cap {TfstateDash \o d, TflogsDash \o d} = PvcsOf(d)
          /\ (/\ req'[c].pc = "done"
              /\ \A k \in 1..Len(req'[c].out) : req'[c].out[k] = "ok")
             => /\ {j \in jobs' : j.cluster = req[c].name} = {}
                /\ pvcs' \cap {TfstateDash \o req[c].name, TflogsDash \o req[c].name} = {}]_vars

\* a cleanup of "a" has deleted two jobs and both PVCs, every call
\* succeeding, and the jobs and the PVCs of "test-a" are still there
C18_Witness ==
  \E c \in DOMAIN req :
    /\ req[c].op = "cleanup" /\ req[c].name = <<"a">> /\ req[c].pc = "done"
    /\ req[c].out = <<"ok", "ok", "ok", "ok", "ok">>
    /\ JobsOf(<<"a">>) = {} /\ PvcsOf(<<"a">>) = {}
    /\ Cardinality(JobsOf(TestDash \o <<"a">>)) = 2
    /\ Cardinality(PvcsOf(TestDash \o <<"a">>)) = 2

====
